---- MODULE Spec2Model ----
(***************************************************************************)
(* Archive-then-write pipeline of the industrial process monitoring demo.  *)
(*                                                                         *)
(* The state is the filesystem the three modules share (data/, images/,    *)
(* analysis/ and their archive/ subdirectories), the wall clock, and the   *)
(* position of the one pipeline process inside a cycle                     *)
(* (pipeline.py: run_complete_pipeline, run_continuous_pipeline;           *)
(* streamlit_app.py: run_single_cycle).                                    *)
(*                                                                         *)
(* A file is a sequence of lines, each line a tuple whose first element is *)
(* a tag.  A path is <<directory, filename>>; a filename is <<name, ext>>  *)
(* (what os.path.splitext returns) and an archived filename is             *)
(* <<name, timestamp, ext>>, the f"{name}_{timestamp}{ext}" of the code.   *)
(*                                                                         *)
(* Filesystem faults (taxonomy (b) of the specification: errors during     *)
(* move and write) are injected nondeterministically, at most MaxFaults    *)
(* per behaviour.                                                          *)
(***************************************************************************)
EXTENDS Integers, Sequences, FiniteSets, TLC

\* ------------------------------------------------------------------ bounds
MaxCycles == 2
MaxTime == 3
MaxFaults == 1
TicksPerSecond == 2
MaxInterval == 1
MaxRounds == 2
MaxClock == 33
MaxWork == 1

VARIABLES
    files,            \* the filesystem: path -> content, for the files that exist
    dirs,             \* the directories that exist
    now,              \* the wall clock, in ticks of 1/TicksPerSecond second
    caller,           \* which cycle driver runs: "none", "complete", "continuous", "dashboard"
    interval_seconds, \* run_continuous_pipeline's parameter (0 outside the loop)
    pc,               \* position of the process
    cycle_count,      \* cycles started so far, over all runs (within one run of the
                      \* loop or of the session it advances as their cycle_count does)
    analysis_result,  \* the local of the cycle: NONE or the model's output
    ret,              \* return value of run_complete_pipeline: "none", "True", "False"
    faults,           \* filesystem faults injected so far
    last,             \* history: the step just taken and how it ended
    pre,              \* history: the filesystem when the current operation began
    slept,            \* history: time.sleep(interval_seconds) ran since the last cycle start
    moves             \* history: per filename, the last two shutil.move calls on it

\* Two processes working on the same directories (the dashboard and the
\* command-line pipeline, or two dashboard sessions), each inside an
\* archive-then-write operation on the same current path
VARIABLES
    target,           \* the current path both writers work on
    wpc,              \* writer -> position: "idle", "checked", "rotated"
    wloc,             \* writer -> its locals: the timestamp it read
    rounds,           \* writer -> operations it has started
    written,          \* history: every content that has been at the current path
    overlapped,       \* history: a writer took a step while the other was inside an operation
    collided,         \* history: a move landed on an existing archive entry
    move_failed       \* history: the writers whose shutil.move raised

\* The dashboard session (streamlit_app.py): st.session_state and the script
VARIABLES
    monitoring,        \* st.session_state.monitoring
    cycle_in_progress, \* st.session_state.cycle_in_progress
    next_cycle_time,   \* st.session_state.next_cycle_time, in seconds, or NoTime
    last_cycle_time,   \* st.session_state.last_cycle_time, in seconds, or NoTime
    clock,             \* the wall clock of the session, in seconds
    dpc,               \* position of the script: "top", "cycle", "refresh"
    last_start,        \* history: the clock at the latest start of run_single_cycle
    since_start,       \* history: monitoring has stayed on since that start
    pressed_at,        \* history: the clock when Start Monitoring was pressed and
                       \* no cycle has started since, or NoTime
    last_analysis,     \* st.session_state.last_analysis: "" (no line), a text, or None
    choice,            \* pipeline.main: the answer to "Enter your choice (1-4)"
    said,              \* pipeline.main: "Analysis report already saved ..." was printed
    save_to_analysis_folder,  \* save_analysis_report's second parameter in a direct call
    status_messages    \* st.session_state.status_messages

pipeline_vars == <<files, dirs, now, caller, interval_seconds, pc, cycle_count,
                   analysis_result, ret, faults, last, pre, slept, moves>>

call_vars == <<save_to_analysis_folder, status_messages>>

writer_vars == <<target, wpc, wloc, rounds, written, overlapped, collided, move_failed>>

session_vars == <<monitoring, cycle_in_progress, next_cycle_time, last_cycle_time,
                  clock, dpc, last_start, since_start, pressed_at>>

\* what the actions of one pipeline process leave alone
outside_pipeline == <<target, wpc, wloc, rounds, written, overlapped, collided, move_failed,
                      session_vars, last_analysis, choice, said, call_vars>>

vars == <<pipeline_vars, writer_vars, session_vars, last_analysis, choice, said, call_vars>>

\* ------------------------------------------------------------ the layout
EVENTS == <<"events", ".csv">>
SENSORS == <<"sensors", ".csv">>
PLOT == <<"culprit_signals_analysis", ".png">>
REPORT == <<"analysis_report", ".txt">>

DATA_DIR == "data"
DATA_ARCHIVE == "data/archive"
IMAGES_DIR == "images"
IMAGES_ARCHIVE == "images/archive"
ANALYSIS_DIR == "analysis"
ANALYSIS_ARCHIVE == "analysis/archive"

Join(dir, filename) == <<dir, filename>>

EventsPath == Join(DATA_DIR, EVENTS)
SensorsPath == Join(DATA_DIR, SENSORS)
PlotPath == Join(IMAGES_DIR, PLOT)
ReportPath == Join(ANALYSIS_DIR, REPORT)

CurrentPaths == {EventsPath, SensorsPath, PlotPath, ReportPath}

ArchiveDirOf(path) ==
    CASE path[1] = DATA_DIR -> DATA_ARCHIVE
      [] path[1] = IMAGES_DIR -> IMAGES_ARCHIVE
      [] OTHER -> ANALYSIS_ARCHIVE

NONE == <<>>

\* ------------------------------------------------------- filesystem calls
Exists(fs, path) == path \in DOMAIN fs

Remove(fs, path) == [p \in DOMAIN fs \ {path} |-> fs[p]]

Put(fs, path, content) ==
    [p \in DOMAIN fs \cup {path} |-> IF p = path THEN content ELSE fs[p]]

Prefix(content, n) == SubSeq(content, 1, n)

\* os.makedirs(d, exist_ok=True): d and its parent exist afterwards
Makedirs(ds, d) ==
    ds \cup {d} \cup (CASE d = DATA_ARCHIVE -> {DATA_DIR}
                       [] d = IMAGES_ARCHIVE -> {IMAGES_DIR}
                       [] d = ANALYSIS_ARCHIVE -> {ANALYSIS_DIR}
                       [] OTHER -> {})

\* mutant of MakedirsRaises: exist_ok left out
MakedirsRaisesIfPresent(ds, d, exist_ok) == d \in ds

\* os.makedirs(d, exist_ok=...) raises FileExistsError on an existing directory
\* unless exist_ok is set
MakedirsRaises(ds, d, exist_ok) == d \in ds /\ ~exist_ok

\* A rotation function starts with os.makedirs(d, exist_ok=True); r is what the
\* rest of the function does to fs.  When makedirs raises, nothing else runs.
AfterMakedirs(ds, d, fs, r) ==
    IF MakedirsRaises(ds, d, TRUE)
    THEN [fs |-> fs, raised |-> TRUE, log |-> <<>>]
    ELSE r

\* mutant of Timestamp: a stamp finer than one second
TimestampSubSecond(t) == t

\* datetime.now().strftime("%Y%m%d_%H%M%S"): the clock cut to whole seconds
Timestamp(t) == t \div TicksPerSecond

\* mutant of ArchivedFilename: the extension left off
ArchivedFilenameNoExt(filename, timestamp) == <<filename[1], timestamp, "">>

\* mutant of ArchivedFilename: the timestamp left out of the name
ArchivedFilenameUnstamped(filename, timestamp) == <<filename[1], 0, filename[2]>>

\* name, ext = os.path.splitext(filename); f"{name}_{timestamp}{ext}"
ArchivedFilename(filename, timestamp) == <<filename[1], timestamp, filename[2]>>

\* mutants of Move: the file is deleted instead of moved; copied instead of moved
MoveDeletes(fs, src, dst, how) ==
    IF how = "ok" THEN Remove(fs, src) ELSE fs

MoveCopies(fs, src, dst, how) ==
    IF how = "ok" THEN Put(fs, dst, fs[src]) ELSE fs

\* How a shutil.move can end.  The archive directory is a subdirectory of the
\* file's own directory, so the move is one os.rename: "ok" replaced the
\* destination (an existing file there is overwritten) and the source is gone;
\* "fail" raised and changed nothing.
MoveOutcomes == {"ok", "fail"}

Move(fs, src, dst, how) ==
    IF how = "ok" THEN Put(Remove(fs, src), dst, fs[src]) ELSE fs

\* open(path, 'w') followed by the writes of `content`; `n` lines reach the file
\* before an error (n = Len(content): none; n = -1: the open itself failed)
Write(fs, path, content, n) ==
    IF n < 0 THEN fs ELSE Put(fs, path, Prefix(content, n))

\* Where a failing write stops: at the open, at the first write (a file
\* truncated to nothing) or at the last one (all but the final line)
WriteCuts(content) == {-1, 0, Len(content) - 1}

\* ------------------------------------------------------------- contents
\* DataFrame.to_csv: a header line and the rows generated in cycle k
CsvOf(filename, k) == << <<"header", filename[1]>>, <<"rows", k>> >>

\* pd.read_csv succeeds on a file that has its header and its rows
Readable(content) == Len(content) = 2

\* create_culprit_signals_plot + savefig: the image of the loaded tables
Render(events_df, sensors_df) == << <<"png">>, events_df[2], sensors_df[2] >>

\* generate(model, processor, formatted_prompt, images): the model's free text
ModelOutput(k) == <<"output", k>>

\* mutant of ReportLines: the model output written after the closing rule
ReportLinesOutputLast(analysis_text, timestamp) ==
    << <<"rule">>,
       <<"INDUSTRIAL PROCESS MONITORING - ANOMALY ANALYSIS REPORT">>,
       <<"rule">>,
       <<"Generated at", timestamp>>,
       <<"Source plot", PLOT>>,
       <<"rule">>,
       <<"rule">>,
       <<"End of Report">>,
       analysis_text >>

\* the f.write calls of save_analysis_report, in order
ReportLines(analysis_text, timestamp) ==
    << <<"rule">>,
       <<"INDUSTRIAL PROCESS MONITORING - ANOMALY ANALYSIS REPORT">>,
       <<"rule">>,
       <<"Generated at", timestamp>>,
       <<"Source plot", PLOT>>,
       <<"rule">>,
       analysis_text,
       <<"rule">>,
       <<"End of Report">> >>

\* ------------------------------------------------------------- rotation
\* mutant of RotateOne: no os.path.exists test, so the move of an absent file raises
RotateOneUnguarded(st, dir, archive_dir, filename, t, how) ==
    LET filepath == Join(dir, filename)
        archived_filepath == Join(archive_dir, ArchivedFilename(filename, Timestamp(t)))
    IN  IF st.raised THEN st
        ELSE IF ~Exists(st.fs, filepath) THEN [st EXCEPT !.raised = TRUE]
        ELSE [fs |-> Move(st.fs, filepath, archived_filepath, how),
              raised |-> how # "ok",
              log |-> Append(st.log, [file |-> filename, tick |-> t,
                                      dst |-> archived_filepath,
                                      existed |-> Exists(st.fs, archived_filepath),
                                      how |-> how])]

\* One pass of the rotation body for `filename`: st is [fs, raised, log].
\* Nothing happens once an earlier move has raised, or when the file is absent.
RotateOne(st, dir, archive_dir, filename, t, how) ==
    LET filepath == Join(dir, filename)
        timestamp == Timestamp(t)
        archived_filename == ArchivedFilename(filename, timestamp)
        archived_filepath == Join(archive_dir, archived_filename)
    IN  IF st.raised \/ ~Exists(st.fs, filepath)
        THEN st
        ELSE [fs |-> Move(st.fs, filepath, archived_filepath, how),
              raised |-> how # "ok",
              log |-> Append(st.log, [file |-> filename, tick |-> t,
                                      dst |-> archived_filepath,
                                      existed |-> Exists(st.fs, archived_filepath),
                                      how |-> how])]

\* mutant of archive_existing_files: the clock read again for the second file, a
\* second later
archive_existing_files_clock_per_file(fs, t, hows) ==
    LET st0 == [fs |-> fs, raised |-> FALSE, log |-> <<>>]
        st1 == RotateOne(st0, DATA_DIR, DATA_ARCHIVE, EVENTS, t, hows[1])
    IN  RotateOne(st1, DATA_DIR, DATA_ARCHIVE, SENSORS, t + TicksPerSecond, hows[2])

\* synth_data.archive_existing_files; hows[i] is how the move of file i ends
archive_existing_files(fs, t, hows) ==
    LET st0 == [fs |-> fs, raised |-> FALSE, log |-> <<>>]
        st1 == RotateOne(st0, DATA_DIR, DATA_ARCHIVE, EVENTS, t, hows[1])
    IN  RotateOne(st1, DATA_DIR, DATA_ARCHIVE, SENSORS, t, hows[2])

\* plot_data.archive_existing_plot
archive_existing_plot(fs, t, how) ==
    RotateOne([fs |-> fs, raised |-> FALSE, log |-> <<>>],
              IMAGES_DIR, IMAGES_ARCHIVE, PLOT, t, how)

\* pipeline.archive_existing_analysis
archive_existing_analysis(fs, t, how) ==
    RotateOne([fs |-> fs, raised |-> FALSE, log |-> <<>>],
              ANALYSIS_DIR, ANALYSIS_ARCHIVE, REPORT, t, how)

\* The move outcomes an environment can produce for a rotation of `paths` (in
\* order): a move of an absent file never runs, and no move runs after one raised.
RotationFaults(fs, paths) ==
    {hows \in [1 .. Len(paths) -> MoveOutcomes] :
        \A i \in 1 .. Len(paths) :
            (~Exists(fs, paths[i]) \/ (\E j \in 1 .. (i - 1) : hows[j] # "ok"))
                => hows[i] = "ok"}

Raises(hows) == \E i \in DOMAIN hows : hows[i] # "ok"

\* ----------------------------------------------------- exception routing
\* mutants of OnException: the loop logs the error and falls through to its
\* sleep; the error of a stage is ignored and the stage goes on to its write
OnExceptionFallsThrough(who, stage) ==
    CASE who = "complete" ->
            IF stage \in {"generate", "visualize"} THEN "returned" ELSE "crashed"
      [] who = "continuous" ->
            IF stage \in {"generate", "visualize"} THEN "sleep" ELSE "crashed"
      [] OTHER -> "returned"

OnExceptionIgnored(who, stage) ==
    CASE stage = "generate" -> "write_data"
      [] stage = "visualize" -> "save_plot"
      [] OTHER -> "write_report"

\* Where control goes when `stage` raises, per driver.
\*   complete:   try/except around generate and create_dashboard returns False;
\*               nothing catches what save_analysis_report lets through
\*   continuous: `continue` to the top of the while loop; the same for the report
\*   dashboard:  run_single_cycle's except Exception, then finally, then return
OnException(who, stage) ==
    CASE who = "complete" ->
            IF stage \in {"generate", "visualize"} THEN "returned" ELSE "crashed"
      [] who = "continuous" ->
            IF stage \in {"generate", "visualize"} THEN "loop" ELSE "crashed"
      [] OTHER -> "returned"

RetOnException(who, stage) ==
    IF who = "complete" /\ stage \in {"generate", "visualize"} THEN "False" ELSE "none"

\* Where control goes after the analysis branch of a cycle has finished
AfterAnalysis(who) ==
    CASE who = "complete" -> "returned"
      [] who = "continuous" -> "sleep"
      [] OTHER -> "cycle_end"

RetAfterAnalysis(who) == IF who = "complete" THEN "True" ELSE "none"

\* --------------------------------------------------------------- reading
\* plot_data.load_data: "missing" is the FileNotFoundError it catches (it returns
\* None, None); "unreadable" is any other pandas error, which it lets through
load_data(fs) ==
    IF ~(Exists(fs, EventsPath) /\ Exists(fs, SensorsPath)) THEN "missing"
    ELSE IF ~(Readable(fs[EventsPath]) /\ Readable(fs[SensorsPath])) THEN "unreadable"
    ELSE "loaded"

\* mutant of run_plot_analysis: only the ImportError is caught
run_plot_analysis_import_only(outcome, k) ==
    [raised |-> outcome = "Exception",
     value |-> IF outcome = "ok" THEN ModelOutput(k) ELSE NONE]

\* pipeline.run_plot_analysis: both except clauses return None; nothing is raised
AnalysisOutcomes == {"ok", "ImportError", "Exception"}

run_plot_analysis(outcome, k) ==
    [raised |-> FALSE,
     value |-> IF outcome = "ok" THEN ModelOutput(k) ELSE NONE]

\* Python's None as force_load_analysis returns it: no text at all, distinct from
\* the empty text
NoAnalysis == << <<"None">> >>

\* glob.glob('analysis/archive/analysis_report_*.txt')
Glob(fs) ==
    {q \in DOMAIN fs : /\ q[1] = ANALYSIS_ARCHIVE
                       /\ q[2][1] = REPORT[1]
                       /\ q[2][3] = REPORT[2]}

\* os.path.getctime of an archive entry: its inode was last changed by the move
\* that put it there, in the second its name carries
Getctime(path) == path[2][2]

\* mutant of force_load_analysis: min instead of max, the oldest archive entry
force_load_analysis_oldest(fs, ds) ==
    LET main_text == IF Exists(fs, ReportPath) THEN fs[ReportPath] ELSE <<>>
        archives == IF ANALYSIS_ARCHIVE \in ds THEN Glob(fs) ELSE {}
        oldest == CHOOSE q \in archives : \A r \in archives : Getctime(q) <= Getctime(r)
        analysis_text == IF main_text # <<>> THEN main_text
                         ELSE IF archives # {} THEN fs[oldest]
                         ELSE <<>>
    IN  IF analysis_text # <<>> THEN analysis_text ELSE NoAnalysis

\* streamlit_app.force_load_analysis: the current report if it has any text, else
\* the archive entry with the greatest ctime; None when that leaves no text
force_load_analysis(fs, ds) ==
    LET main_text == IF Exists(fs, ReportPath) THEN fs[ReportPath] ELSE <<>>
        archives == IF ANALYSIS_ARCHIVE \in ds THEN Glob(fs) ELSE {}
        latest == CHOOSE q \in archives : \A r \in archives : Getctime(r) <= Getctime(q)
        analysis_text == IF main_text # <<>> THEN main_text
                         ELSE IF archives # {} THEN fs[latest]
                         ELSE <<>>
    IN  IF analysis_text # <<>> THEN analysis_text ELSE NoAnalysis

\* main, lines 495-496: if not st.session_state.last_analysis: force_load_analysis()
Reloaded(analysis, fs, ds) ==
    IF analysis \in {<<>>, NoAnalysis} THEN force_load_analysis(fs, ds) ELSE analysis

\* The history of moves after the moves of `log` (at most one per filename):
\* each filename keeps its last two
Logged(ms, log) ==
    [f \in DOMAIN ms |->
        IF \E i \in DOMAIN log : log[i].file = f
        THEN LET m == log[CHOOSE i \in DOMAIN log : log[i].file = f]
             IN  IF ms[f] = <<>> THEN <<m>> ELSE <<ms[f][Len(ms[f])], m>>
        ELSE ms[f]]

\* ------------------------------------------------------------------ Init
\* What an earlier run of the program left at a current path
OldContent(path) ==
    CASE path = EventsPath -> CsvOf(EVENTS, 0)
      [] path = SensorsPath -> CsvOf(SENSORS, 0)
      [] path = PlotPath -> Render(CsvOf(EVENTS, 0), CsvOf(SENSORS, 0))
      [] OTHER -> ReportLines(ModelOutput(0), 0)

Step(op, outcome) == [op |-> op, outcome |-> outcome]

\* None, for the two times of the session state
NoTime == -1

\* The session state as the script initialises it (lines 217-233)
SessionAtRest ==
    /\ monitoring = FALSE
    /\ cycle_in_progress = FALSE
    /\ next_cycle_time = NoTime
    /\ last_cycle_time = NoTime
    /\ clock = 0
    /\ dpc = "top"
    /\ last_start = NoTime
    /\ since_start = FALSE
    /\ pressed_at = NoTime
    /\ last_analysis = <<>>
    /\ choice = "none"
    /\ said = FALSE
    /\ save_to_analysis_folder = TRUE
    /\ status_messages = <<>>

\* The two writers of the overlap model
Writers == {1, 2}

\* No second process: both writers at rest
WritersAtRest ==
    /\ target = ReportPath
    /\ wpc = [w \in Writers |-> "idle"]
    /\ wloc = [w \in Writers |-> 0]
    /\ rounds = [w \in Writers |-> 0]
    /\ written = {}
    /\ overlapped = FALSE
    /\ collided = FALSE
    /\ move_failed = {}

Init ==
    /\ \E present \in {{}, CurrentPaths} :
          /\ files = [p \in present |-> OldContent(p)]
          /\ dirs = IF present = {} THEN {}
                    ELSE {DATA_DIR, DATA_ARCHIVE, IMAGES_DIR, IMAGES_ARCHIVE,
                          ANALYSIS_DIR, ANALYSIS_ARCHIVE}
    /\ now = 0
    /\ caller = "none"
    /\ interval_seconds = 0
    /\ pc = "main"
    /\ cycle_count = 0
    /\ analysis_result = NONE
    /\ ret = "none"
    /\ faults = 0
    /\ last = Step("init", "ok")
    /\ pre = files
    /\ slept = FALSE
    /\ moves = [f \in {EVENTS, SENSORS, PLOT, REPORT} |-> <<>>]
    /\ WritersAtRest
    /\ SessionAtRest

\* --------------------------------------------------------------- actions
\* pipeline.main (choices 1, 2, other: one run; 3, 4: the loop) and the dashboard
\* script, whose first cycle starts when monitoring is switched on
Main ==
    /\ pc = "main"
    /\ cycle_count < MaxCycles
    /\ \E who \in {"complete", "continuous", "dashboard"} :
          /\ caller' = who
          /\ pc' = IF who = "complete" THEN "archive_files" ELSE "loop"
          /\ cycle_count' = IF who = "complete" THEN cycle_count + 1 ELSE cycle_count
          /\ IF who = "continuous"
             THEN interval_seconds' \in 1 .. MaxInterval
             ELSE interval_seconds' = 0
    /\ last' = Step("main", "ok")
    /\ UNCHANGED <<files, dirs, now, analysis_result, ret, faults, pre, slept, moves>>
    /\ UNCHANGED outside_pipeline

\* top of `while True` (cycle_count += 1), and the start of run_single_cycle
StartCycle ==
    /\ pc = "loop"
    /\ cycle_count < MaxCycles
    /\ cycle_count' = cycle_count + 1
    /\ pc' = "archive_files"
    /\ slept' = FALSE
    /\ analysis_result' = NONE
    /\ last' = Step("start_cycle", "ok")
    /\ UNCHANGED <<files, dirs, now, caller, interval_seconds, ret, faults, pre, moves>>
    /\ UNCHANGED outside_pipeline

\* generate_and_save_data, line 119: archive_existing_files()
ArchiveExistingFiles ==
    /\ pc = "archive_files"
    /\ \E hows \in RotationFaults(files, <<EventsPath, SensorsPath>>) :
          LET r == AfterMakedirs(dirs, DATA_ARCHIVE, files,
                                 archive_existing_files(files, now, hows))
          IN  /\ Raises(hows) => faults < MaxFaults
              /\ files' = r.fs
              /\ moves' = Logged(moves, r.log)
              /\ faults' = faults + (IF r.raised THEN 1 ELSE 0)
              /\ pc' = IF r.raised THEN OnException(caller, "generate") ELSE "write_data"
              /\ ret' = IF r.raised THEN RetOnException(caller, "generate") ELSE ret
              /\ last' = Step("archive_existing_files", IF r.raised THEN "raised" ELSE "ok")
    /\ dirs' = Makedirs(dirs, DATA_ARCHIVE)
    /\ pre' = files
    /\ UNCHANGED <<now, caller, interval_seconds, cycle_count, analysis_result, slept>>
    /\ UNCHANGED outside_pipeline

\* generate_and_save_data, lines 121-184: build the two frames, then to_csv twice.
\* failing = 0: both written; failing = i: write i stops after n lines and raises
WriteCsv ==
    /\ pc = "write_data"
    /\ LET events_df == CsvOf(EVENTS, cycle_count)
           sensors_df == CsvOf(SENSORS, cycle_count)
       IN  \E failing \in 0 .. 2 :
           \E n \in WriteCuts(events_df) :
              /\ failing = 0 => n = -1
              /\ failing # 0 => faults < MaxFaults
              /\ files' = CASE failing = 0 ->
                                  Put(Put(files, EventsPath, events_df),
                                      SensorsPath, sensors_df)
                            [] failing = 1 -> Write(files, EventsPath, events_df, n)
                            [] OTHER -> Write(Put(files, EventsPath, events_df),
                                              SensorsPath, sensors_df, n)
              /\ faults' = faults + (IF failing # 0 THEN 1 ELSE 0)
              /\ pc' = IF failing # 0 THEN OnException(caller, "generate")
                       ELSE "archive_plot"
              /\ ret' = IF failing # 0 THEN RetOnException(caller, "generate") ELSE ret
              /\ last' = Step("generate_and_save_data",
                              IF failing # 0 THEN "raised" ELSE "ok")
    /\ UNCHANGED <<dirs, now, caller, interval_seconds, cycle_count, analysis_result,
                   pre, slept, moves>>
    /\ UNCHANGED outside_pipeline

\* create_dashboard, lines 227-236: load_data, the early return, archive_existing_plot
ArchiveExistingPlot ==
    /\ pc = "archive_plot"
    /\ pre' = files
    /\ LET loaded == load_data(files)
       IN  IF loaded = "missing"
           THEN /\ pc' = "analysis"
                /\ last' = Step("create_dashboard", "no data")
                /\ UNCHANGED <<files, dirs, moves, faults, ret>>
           ELSE IF loaded = "unreadable"
           THEN /\ pc' = OnException(caller, "visualize")
                /\ ret' = RetOnException(caller, "visualize")
                /\ last' = Step("load_data", "raised")
                /\ UNCHANGED <<files, dirs, moves, faults>>
           ELSE \E hows \in RotationFaults(files, <<PlotPath>>) :
                   LET r == AfterMakedirs(dirs, IMAGES_ARCHIVE, files,
                                          archive_existing_plot(files, now, hows[1]))
                   IN  /\ Raises(hows) => faults < MaxFaults
                       /\ files' = r.fs
                       /\ dirs' = Makedirs(dirs, IMAGES_ARCHIVE)
                       /\ moves' = Logged(moves, r.log)
                       /\ faults' = faults + (IF r.raised THEN 1 ELSE 0)
                       /\ pc' = IF r.raised THEN OnException(caller, "visualize")
                                ELSE "save_plot"
                       /\ ret' = IF r.raised THEN RetOnException(caller, "visualize")
                                 ELSE ret
                       /\ last' = Step("archive_existing_plot",
                                       IF r.raised THEN "raised" ELSE "ok")
    /\ UNCHANGED <<now, caller, interval_seconds, cycle_count, analysis_result, slept>>
    /\ UNCHANGED outside_pipeline

\* create_dashboard, lines 238-246: render the loaded tables and savefig.  Nothing
\* runs between load_data and here, so the tables are read from the files again.
SavePlot ==
    /\ pc = "save_plot"
    /\ LET fig_culprit == Render(files[EventsPath], files[SensorsPath])
       IN  \E n \in WriteCuts(fig_culprit) \cup {Len(fig_culprit)} :
              LET failed == n < Len(fig_culprit)
              IN  /\ failed => faults < MaxFaults
                  /\ files' = Write(files, PlotPath, fig_culprit, n)
                  /\ faults' = faults + (IF failed THEN 1 ELSE 0)
                  /\ pc' = IF failed THEN OnException(caller, "visualize") ELSE "analysis"
                  /\ ret' = IF failed THEN RetOnException(caller, "visualize") ELSE ret
                  /\ last' = Step("create_dashboard", IF failed THEN "raised" ELSE "ok")
    /\ UNCHANGED <<dirs, now, caller, interval_seconds, cycle_count, analysis_result,
                   pre, slept, moves>>
    /\ UNCHANGED outside_pipeline

\* analysis_result = run_plot_analysis(); if analysis_result: ... else: ...
\* The model can only produce output from an image that exists.
RunPlotAnalysis ==
    /\ pc = "analysis"
    /\ \E outcome \in AnalysisOutcomes :
          LET r == run_plot_analysis(outcome, cycle_count)
          IN  /\ outcome = "ok" => Exists(files, PlotPath)
              /\ analysis_result' = r.value
              /\ pc' = IF r.raised THEN OnException(caller, "analysis")
                       ELSE IF r.value # NONE THEN "archive_analysis"
                       ELSE AfterAnalysis(caller)
              /\ ret' = IF r.raised THEN RetOnException(caller, "analysis")
                        ELSE IF r.value # NONE THEN ret
                        ELSE RetAfterAnalysis(caller)
              /\ last' = Step("run_plot_analysis", outcome)
    /\ pre' = files
    /\ UNCHANGED <<files, dirs, now, caller, interval_seconds, cycle_count, faults,
                   slept, moves>>
    /\ UNCHANGED outside_pipeline

\* save_analysis_report, lines 203-211: the result is truthy here (the callers'
\* `if analysis_result:`), so the rotation of the report runs
ArchiveExistingAnalysis ==
    /\ pc = "archive_analysis"
    /\ \E hows \in RotationFaults(files, <<ReportPath>>) :
          LET r == AfterMakedirs(dirs, ANALYSIS_DIR, files,
                      AfterMakedirs(Makedirs(dirs, ANALYSIS_DIR), ANALYSIS_ARCHIVE, files,
                                    archive_existing_analysis(files, now, hows[1])))
          IN  /\ Raises(hows) => faults < MaxFaults
              /\ files' = r.fs
              /\ moves' = Logged(moves, r.log)
              /\ faults' = faults + (IF r.raised THEN 1 ELSE 0)
              /\ pc' = IF r.raised THEN OnException(caller, "report") ELSE "write_report"
              /\ ret' = IF r.raised THEN RetOnException(caller, "report") ELSE ret
              /\ last' = Step("archive_existing_analysis",
                              IF r.raised THEN "raised" ELSE "ok")
    /\ dirs' = Makedirs(Makedirs(dirs, ANALYSIS_DIR), ANALYSIS_ARCHIVE)
    /\ pre' = files
    /\ UNCHANGED <<now, caller, interval_seconds, cycle_count, analysis_result, slept>>
    /\ UNCHANGED outside_pipeline

\* save_analysis_report, lines 213-240: open the report and write it; an error is
\* caught there (it returns None) and the caller goes on
WriteReport ==
    /\ pc = "write_report"
    /\ LET report == ReportLines(analysis_result, Timestamp(now))
       IN  \E n \in WriteCuts(report) \cup {Len(report)} :
              LET failed == n < Len(report)
              IN  /\ failed => faults < MaxFaults
                  /\ files' = Write(files, ReportPath, report, n)
                  /\ faults' = faults + (IF failed THEN 1 ELSE 0)
                  /\ last' = Step("save_analysis_report", IF failed THEN "None" ELSE "saved")
    /\ dirs' = Makedirs(dirs, ANALYSIS_DIR)
    /\ pc' = AfterAnalysis(caller)
    /\ ret' = RetAfterAnalysis(caller)
    /\ UNCHANGED <<now, caller, interval_seconds, cycle_count, analysis_result, pre,
                   slept, moves>>
    /\ UNCHANGED outside_pipeline

\* run_continuous_pipeline, line 167: time.sleep(interval_seconds)
Sleep ==
    /\ pc = "sleep"
    /\ now + interval_seconds * TicksPerSecond <= MaxTime
    /\ now' = now + interval_seconds * TicksPerSecond
    /\ pc' = "loop"
    /\ slept' = TRUE
    /\ last' = Step("sleep", "ok")
    /\ UNCHANGED <<files, dirs, caller, interval_seconds, cycle_count, analysis_result,
                   ret, faults, pre, moves>>
    /\ UNCHANGED outside_pipeline

\* run_single_cycle, lines 466-481: time.sleep(1), last_analysis =
\* force_load_analysis(), then the session bookkeeping
CycleEnd ==
    /\ pc = "cycle_end"
    /\ now + TicksPerSecond <= MaxTime
    /\ now' = now + TicksPerSecond
    /\ pc' = "returned"
    /\ last' = Step("cycle_end", "ok")
    /\ UNCHANGED <<files, dirs, caller, interval_seconds, cycle_count, analysis_result,
                   ret, faults, pre, slept, moves>>
    /\ last_analysis' = force_load_analysis(files, dirs)
    /\ UNCHANGED <<writer_vars, session_vars, choice, said, call_vars>>

\* Ctrl+C: run_continuous_pipeline's and main's `except KeyboardInterrupt`,
\* taken where the process blocks (the inference call, the sleep)
KeyboardInterrupt ==
    /\ pc \in {"analysis", "sleep"}
    /\ caller \in {"complete", "continuous"}
    /\ pc' = "stopped"
    /\ last' = Step("KeyboardInterrupt", "ok")
    /\ UNCHANGED <<files, dirs, now, caller, interval_seconds, cycle_count,
                   analysis_result, ret, faults, pre, slept, moves>>
    /\ UNCHANGED outside_pipeline

\* pipeline.py is started again after a single run has ended; the files stay
Rerun ==
    /\ pc \in {"returned", "crashed"}
    /\ caller = "complete"
    /\ cycle_count < MaxCycles
    /\ pc' = "main"
    /\ caller' = "none"
    /\ ret' = "none"
    /\ analysis_result' = NONE
    /\ slept' = FALSE
    /\ interval_seconds' = 0
    /\ last' = Step("rerun", "ok")
    /\ UNCHANGED <<files, dirs, now, cycle_count, faults, pre, moves>>
    /\ UNCHANGED outside_pipeline

\* The wall clock advances.  Only the rotations and the report's "Generated at"
\* line read it; it is let advance before a cycle's first rotation and during
\* the inference call, that is before the rotation of the report.
ClockAdvances == {"archive_files", "archive_analysis"}

Tick ==
    /\ pc \in ClockAdvances
    /\ now < MaxTime
    /\ now' = now + 1
    /\ UNCHANGED <<files, dirs, caller, interval_seconds, pc, cycle_count,
                   analysis_result, ret, faults, last, pre, slept, moves>>
    /\ UNCHANGED outside_pipeline

Next ==
    \/ Main
    \/ StartCycle
    \/ ArchiveExistingFiles
    \/ WriteCsv
    \/ ArchiveExistingPlot
    \/ SavePlot
    \/ RunPlotAnalysis
    \/ ArchiveExistingAnalysis
    \/ WriteReport
    \/ Sleep
    \/ CycleEnd
    \/ KeyboardInterrupt
    \/ Rerun
    \/ Tick

Spec == Init /\ [][Next]_vars

\* ------------------------------------------------ two overlapping writers
\* Each writer runs archive-then-write operations on `target`, one statement at
\* a time: the clock read and the os.path.exists test, the shutil.move, the
\* write.  Nothing in the code serialises two processes, so the statements of
\* the two writers interleave freely.
\* What writer w writes in its operation number k
ContentOf(w, k) == << <<"written by", w, k>> >>

Busy(w) == wpc[w] # "idle"

\* History kept by every writer step
Overlap(w) == overlapped \/ (\E o \in Writers \ {w} : Busy(o))

InitWriters ==
    /\ files = [p \in CurrentPaths |-> OldContent(p)]
    /\ dirs = {DATA_DIR, DATA_ARCHIVE, IMAGES_DIR, IMAGES_ARCHIVE,
               ANALYSIS_DIR, ANALYSIS_ARCHIVE}
    /\ now = 0
    /\ caller = "none"
    /\ interval_seconds = 0
    /\ pc = "writers"
    /\ cycle_count = 0
    /\ analysis_result = NONE
    /\ ret = "none"
    /\ faults = 0
    /\ last = Step("init", "ok")
    /\ pre = files
    /\ slept = FALSE
    /\ moves = [f \in {EVENTS, SENSORS, PLOT, REPORT} |-> <<>>]
    /\ target \in CurrentPaths
    /\ wpc = [w \in Writers |-> "idle"]
    /\ wloc = [w \in Writers |-> 0]
    /\ rounds = [w \in Writers |-> 0]
    /\ written = {files[target]}
    /\ overlapped = FALSE
    /\ collided = FALSE
    /\ move_failed = {}
    /\ SessionAtRest

\* timestamp = datetime.now().strftime(...); if os.path.exists(filepath):
WriterChecks(w) ==
    /\ wpc[w] = "idle"
    /\ rounds[w] < MaxRounds
    /\ rounds' = [rounds EXCEPT ![w] = @ + 1]
    /\ wloc' = [wloc EXCEPT ![w] = Timestamp(now)]
    /\ wpc' = [wpc EXCEPT ![w] = IF Exists(files, target) THEN "checked" ELSE "rotated"]
    /\ overlapped' = Overlap(w)
    /\ UNCHANGED <<files, target, written, collided, move_failed>>

\* shutil.move(filepath, archived_filepath): it raises when the file is no longer
\* there, and the operation ends (its caller catches the error or dies of it)
WriterMoves(w) ==
    /\ wpc[w] = "checked"
    /\ LET archived_filepath ==
               Join(ArchiveDirOf(target), ArchivedFilename(target[2], wloc[w]))
       IN  IF Exists(files, target)
           THEN /\ files' = Move(files, target, archived_filepath, "ok")
                /\ collided' = (collided \/ Exists(files, archived_filepath))
                /\ wpc' = [wpc EXCEPT ![w] = "rotated"]
                /\ UNCHANGED move_failed
           ELSE /\ move_failed' = move_failed \cup {w}
                /\ wpc' = [wpc EXCEPT ![w] = "idle"]
                /\ UNCHANGED <<files, collided>>
    /\ overlapped' = Overlap(w)
    /\ UNCHANGED <<target, wloc, rounds, written>>

\* to_csv / savefig / open(report_filename, 'w'): the new content replaces
\* whatever is at the current path
WriterWrites(w) ==
    /\ wpc[w] = "rotated"
    /\ files' = Put(files, target, ContentOf(w, rounds[w]))
    /\ written' = written \cup {ContentOf(w, rounds[w])}
    /\ wpc' = [wpc EXCEPT ![w] = "idle"]
    /\ overlapped' = Overlap(w)
    /\ UNCHANGED <<target, wloc, rounds, collided, move_failed>>

\* what the statements of the writers leave alone
outside_writers == <<dirs, caller, interval_seconds, pc, cycle_count, analysis_result,
                     ret, faults, last, pre, slept, moves, session_vars, last_analysis,
                     choice, said, call_vars>>

WriterCheck ==
    /\ \E w \in Writers : WriterChecks(w)
    /\ UNCHANGED <<now, outside_writers>>

WriterMove ==
    /\ \E w \in Writers : WriterMoves(w)
    /\ UNCHANGED <<now, outside_writers>>

WriterWrite ==
    /\ \E w \in Writers : WriterWrites(w)
    /\ UNCHANGED <<now, outside_writers>>

\* the wall clock advances between any two statements
WriterTick ==
    /\ now < MaxTime
    /\ now' = now + 1
    /\ UNCHANGED <<files, writer_vars, outside_writers>>

NextWriters ==
    \/ WriterCheck
    \/ WriterMove
    \/ WriterWrite
    \/ WriterTick

SpecWriters == InitWriters /\ [][NextWriters]_vars

\* --------------------------------------------------- the dashboard session
\* The script of streamlit_app.py runs from the top on every rerun.  Here the
\* session state and the clock are followed; of a cycle only how long it takes
\* and whether a step of it raised matter to them (what a dashboard cycle does to
\* the files is the caller = "dashboard" part of Spec).  A button press is seen
\* by the script run that follows it.
\* timedelta(seconds=30), time.sleep(1) in run_single_cycle, time.sleep(2) in main
CycleInterval == 30
CycleSleep == 1
RefreshSleep == 2

\* nothing of the command-line pipeline runs beside the session
PipelineAtRest ==
    /\ files = [p \in {} |-> NONE]
    /\ dirs = {}
    /\ now = 0
    /\ caller = "dashboard"
    /\ interval_seconds = 0
    /\ pc = "session"
    /\ cycle_count = 0
    /\ analysis_result = NONE
    /\ ret = "none"
    /\ faults = 0
    /\ last = Step("init", "ok")
    /\ pre = files
    /\ slept = FALSE
    /\ moves = [f \in {EVENTS, SENSORS, PLOT, REPORT} |-> <<>>]

InitDash ==
    /\ PipelineAtRest
    /\ WritersAtRest
    /\ SessionAtRest

\* what the script leaves alone
outside_session == <<files, dirs, now, caller, interval_seconds, pc, analysis_result,
                     ret, faults, last, pre, slept, moves, writer_vars, choice, said,
                     call_vars>>

\* mutant of CycleDue: the test of st.session_state.monitoring left out
CycleDueWithoutMonitoring(m, in_progress, next_time, t) ==
    /\ ~in_progress
    /\ (next_time = NoTime \/ t >= next_time)

\* lines 536-537: if monitoring and not cycle_in_progress:
\*                    if not next_cycle_time or datetime.now() >= next_cycle_time:
CycleDue(m, in_progress, next_time, t) ==
    /\ m
    /\ ~in_progress
    /\ (next_time = NoTime \/ t >= next_time)

\* mutant of ResetInFinally: run_single_cycle without its finally clause
NoResetInFinally(in_progress) == in_progress

\* run_single_cycle, lines 480-481: finally: cycle_in_progress = False
ResetInFinally(in_progress) == FALSE

\* main, lines 515-522: the status indicator of the control panel
StatusIndicator(m, in_progress) ==
    IF m THEN (IF in_progress THEN "RUNNING" ELSE "MONITORING ACTIVE") ELSE "STOPPED"

\* main, line 527: the next-cycle countdown is shown
CountdownShown(m, in_progress, next_time) == m /\ next_time # NoTime /\ ~in_progress

\* lines 501-506: Start Monitoring (enabled while monitoring is off), st.rerun()
PressStart ==
    /\ dpc = "top"
    /\ ~monitoring
    /\ monitoring' = TRUE
    /\ pressed_at' = clock
    /\ UNCHANGED <<cycle_in_progress, next_cycle_time, last_cycle_time, clock, dpc,
                   last_start, since_start, cycle_count, outside_session>>
    /\ last_analysis' = Reloaded(last_analysis, files, dirs)

\* lines 508-513: Stop Monitoring (enabled while monitoring is on), st.rerun()
PressStop ==
    /\ dpc = "top"
    /\ monitoring
    /\ monitoring' = FALSE
    /\ next_cycle_time' = NoTime
    /\ since_start' = FALSE
    /\ pressed_at' = NoTime
    /\ UNCHANGED <<cycle_in_progress, last_cycle_time, clock, dpc, last_start,
                   cycle_count, outside_session>>
    /\ last_analysis' = Reloaded(last_analysis, files, dirs)

\* lines 536-538 and 434-436: the gate lets run_single_cycle begin
RunSingleCycleBegins ==
    /\ dpc = "top"
    /\ CycleDue(monitoring, cycle_in_progress, next_cycle_time, clock)
    /\ cycle_count < MaxCycles
    /\ cycle_in_progress' = TRUE
    /\ cycle_count' = cycle_count + 1
    /\ dpc' = "cycle"
    /\ last_start' = clock
    /\ since_start' = TRUE
    /\ pressed_at' = NoTime
    /\ UNCHANGED <<monitoring, next_cycle_time, last_cycle_time, clock, outside_session>>
    /\ last_analysis' = Reloaded(last_analysis, files, dirs)

\* lines 443-475, 480-481, 540: the steps all return, time.sleep(1), the timings
\* are set, finally resets cycle_in_progress, st.rerun()
CycleCompletes ==
    /\ dpc = "cycle"
    /\ \E work \in 0 .. MaxWork :
          /\ clock + work + CycleSleep <= MaxClock
          /\ clock' = clock + work + CycleSleep
    /\ last_cycle_time' = clock'
    /\ next_cycle_time' = clock' + CycleInterval
    /\ cycle_in_progress' = ResetInFinally(cycle_in_progress)
    /\ dpc' = "top"
    /\ UNCHANGED <<monitoring, last_start, since_start, pressed_at, cycle_count,
                   outside_session>>
    /\ last_analysis' = force_load_analysis(files, dirs)

\* lines 477-481, 540: a step raised; except Exception reports it, finally resets
\* cycle_in_progress, st.rerun().  The timings of lines 471-472 are not set.
CycleRaises ==
    /\ dpc = "cycle"
    /\ \E work \in 0 .. MaxWork :
          /\ clock + work <= MaxClock
          /\ clock' = clock + work
    /\ cycle_in_progress' = ResetInFinally(cycle_in_progress)
    /\ dpc' = "top"
    /\ UNCHANGED <<monitoring, next_cycle_time, last_cycle_time, last_start, since_start,
                   pressed_at, cycle_count, outside_session>>
    /\ UNCHANGED last_analysis

\* lines 536-537 false, then 602-604: monitoring is on and no cycle is due, the
\* script reaches its auto-refresh
NoCycleDue ==
    /\ dpc = "top"
    /\ monitoring
    /\ ~CycleDue(monitoring, cycle_in_progress, next_cycle_time, clock)
    /\ dpc' = "refresh"
    /\ UNCHANGED <<monitoring, cycle_in_progress, next_cycle_time, last_cycle_time, clock,
                   last_start, since_start, pressed_at, cycle_count, outside_session>>
    /\ last_analysis' = Reloaded(last_analysis, files, dirs)

\* lines 603-604: time.sleep(2); st.rerun()
Refresh ==
    /\ dpc = "refresh"
    /\ clock + RefreshSleep <= MaxClock
    /\ clock' = clock + RefreshSleep
    /\ dpc' = "top"
    /\ UNCHANGED <<monitoring, cycle_in_progress, next_cycle_time, last_cycle_time,
                   last_start, since_start, pressed_at, cycle_count, outside_session>>
    /\ UNCHANGED last_analysis

\* monitoring is off: the script has ended and the page waits for the user
UserWaits ==
    /\ dpc = "top"
    /\ ~monitoring
    /\ clock < MaxClock
    /\ clock' = clock + 1
    /\ UNCHANGED <<monitoring, cycle_in_progress, next_cycle_time, last_cycle_time, dpc,
                   last_start, since_start, pressed_at, cycle_count, outside_session>>
    /\ UNCHANGED last_analysis

NextDash ==
    \/ PressStart
    \/ PressStop
    \/ RunSingleCycleBegins
    \/ CycleCompletes
    \/ CycleRaises
    \/ NoCycleDue
    \/ Refresh
    \/ UserWaits

SpecDash == InitDash /\ [][NextDash]_vars

\* ------------------------------------------------------------------------
\* The end of one dashboard cycle (run_single_cycle, lines 456-468) seen from
\* every report history: the analysis was made or not, save_analysis_report
\* rotates and writes, force_load_analysis reads back; then the next script
\* run's startup load (main, lines 495-496).

\* The report a cycle of second `stamp` wrote with the output of cycle k
ReportOf(k, stamp) == ReportLines(ModelOutput(k), stamp)

\* What a report file can hold: nothing (a write that failed at once), all but
\* the last line, or all of it
LeftBy(content) == {Prefix(content, n) : n \in (WriteCuts(content) \ {-1}) \cup {Len(content)}}

\* The archive entry rotated in second `stamp`
EntryPath(stamp) == Join(ANALYSIS_ARCHIVE, ArchivedFilename(REPORT, stamp))

\* The report histories at clock t: a current report or none, and for some of the
\* seconds up to t an archive entry, holding what a report file can hold
Histories(t) ==
    LET stamps == 0 .. Timestamp(t)
        paths == {ReportPath} \cup {EntryPath(stamp) : stamp \in stamps}
        StampOf(q) == IF q = ReportPath THEN Timestamp(t) ELSE Getctime(q)
        contents == UNION {LeftBy(ReportOf(0, stamp)) : stamp \in stamps}
    IN  {h \in UNION {[present -> contents] : present \in SUBSET paths} :
            \A q \in DOMAIN h : h[q] \in LeftBy(ReportOf(0, StampOf(q)))}

InitLoad ==
    /\ now \in 0 .. MaxTime
    /\ files \in Histories(now)
    /\ dirs = IF DOMAIN files = {} THEN {} ELSE {ANALYSIS_DIR, ANALYSIS_ARCHIVE}
    /\ analysis_result \in {NONE, ModelOutput(1)}
    /\ caller = "dashboard"
    /\ interval_seconds = 0
    /\ pc = "saving"
    /\ cycle_count = 1
    /\ ret = "none"
    /\ faults = 0
    /\ last = Step("run_plot_analysis", "ok")
    /\ pre = files
    /\ slept = FALSE
    /\ moves = [f \in {EVENTS, SENSORS, PLOT, REPORT} |-> <<>>]
    /\ WritersAtRest
    /\ SessionAtRest

\* what the end of a cycle leaves alone
outside_load == <<caller, interval_seconds, cycle_count, analysis_result, ret, slept,
                  writer_vars, session_vars, choice, said, call_vars>>

\* run_single_cycle, line 458: `if analysis_result:` is false, nothing is saved
NothingToSave ==
    /\ pc = "saving"
    /\ analysis_result = NONE
    /\ pc' = "loading"
    /\ last' = Step("run_plot_analysis", "None")
    /\ pre' = files
    /\ UNCHANGED <<files, dirs, now, faults, moves, last_analysis>>
    /\ UNCHANGED outside_load

\* save_analysis_report in folder mode, lines 201-240: the rotation (outside the
\* try), os.makedirs, then the writes inside the try
SaveAnalysisReport ==
    /\ pc = "saving"
    /\ analysis_result # NONE
    /\ \E hows \in RotationFaults(files, <<ReportPath>>) :
          LET r == AfterMakedirs(dirs, ANALYSIS_DIR, files,
                      AfterMakedirs(Makedirs(dirs, ANALYSIS_DIR), ANALYSIS_ARCHIVE, files,
                                    archive_existing_analysis(files, now, hows[1])))
              report == ReportLines(analysis_result, Timestamp(now))
          IN  /\ moves' = Logged(moves, r.log)
              /\ IF r.raised
                 THEN /\ files' = r.fs
                      /\ faults' = faults + 1
                      /\ pc' = "top"
                      /\ last' = Step("archive_existing_analysis", "raised")
                 ELSE \E n \in WriteCuts(report) \cup {Len(report)} :
                         LET failed == n < Len(report)
                         IN  /\ files' = Write(r.fs, ReportPath, report, n)
                             /\ faults' = faults + (IF failed THEN 1 ELSE 0)
                             /\ pc' = "loading"
                             /\ last' = Step("save_analysis_report",
                                             IF failed THEN "None" ELSE "saved")
    /\ dirs' = Makedirs(Makedirs(dirs, ANALYSIS_DIR), ANALYSIS_ARCHIVE)
    /\ pre' = files
    /\ UNCHANGED <<now, last_analysis>>
    /\ UNCHANGED outside_load

\* run_single_cycle, lines 467-468: time.sleep(1);
\* st.session_state.last_analysis = force_load_analysis()
ForceLoadAnalysis ==
    /\ pc = "loading"
    /\ last_analysis' = force_load_analysis(files, dirs)
    /\ now' = now + TicksPerSecond
    /\ pc' = "top"
    /\ UNCHANGED <<files, dirs, faults, last, pre, moves>>
    /\ UNCHANGED outside_load

\* main, lines 495-496, in the script run that follows the cycle
StartupLoad ==
    /\ pc = "top"
    /\ last_analysis' = Reloaded(last_analysis, files, dirs)
    /\ pc' = "shown"
    /\ UNCHANGED <<files, dirs, now, faults, last, pre, moves>>
    /\ UNCHANGED outside_load

NextLoad ==
    \/ NothingToSave
    \/ SaveAnalysisReport
    \/ ForceLoadAnalysis
    \/ StartupLoad

SpecLoad == InitLoad /\ [][NextLoad]_vars

\* ------------------------------------------------------------------------
\* One run of pipeline.main: the mode is chosen, the pipeline runs, and mode 2
\* prints its message.

\* input(...).strip(): the four modes and anything else
Choices == {"1", "2", "3", "4", "other"}

\* The function main calls for a choice
CallerOf(c) == IF c \in {"3", "4"} THEN "continuous" ELSE "complete"

\* main, lines 257-260: success = run_complete_pipeline(); if success: print(...)
SaysAlreadySaved(c, success) == c = "2" /\ success = "True"

\* main, lines 252-278: the choice is read and the pipeline function called
ChooseMode ==
    /\ pc = "main"
    /\ choice = "none"
    /\ \E c \in Choices :
          /\ choice' = c
          /\ caller' = CallerOf(c)
          /\ pc' = IF CallerOf(c) = "complete" THEN "archive_files" ELSE "loop"
          /\ cycle_count' = IF CallerOf(c) = "complete" THEN cycle_count + 1 ELSE cycle_count
          /\ IF CallerOf(c) = "continuous"
             THEN interval_seconds' \in 1 .. MaxInterval
             ELSE interval_seconds' = 0
    /\ last' = Step("main", "ok")
    /\ UNCHANGED <<files, dirs, now, analysis_result, ret, faults, pre, slept, moves>>
    /\ UNCHANGED <<writer_vars, session_vars, last_analysis, said, call_vars>>

\* main, lines 254-278: run_complete_pipeline has returned; mode 2 tests the
\* value and prints, the other modes drop it
PipelineReturns ==
    /\ pc = "returned"
    /\ caller = "complete"
    /\ said' = SaysAlreadySaved(choice, ret)
    /\ pc' = "exited"
    /\ UNCHANGED <<files, dirs, now, caller, interval_seconds, cycle_count, analysis_result,
                   ret, faults, last, pre, slept, moves>>
    /\ UNCHANGED <<writer_vars, session_vars, last_analysis, choice, call_vars>>

NextMain ==
    \/ ChooseMode
    \/ StartCycle
    \/ ArchiveExistingFiles
    \/ WriteCsv
    \/ ArchiveExistingPlot
    \/ SavePlot
    \/ RunPlotAnalysis
    \/ ArchiveExistingAnalysis
    \/ WriteReport
    \/ Sleep
    \/ KeyboardInterrupt
    \/ Tick
    \/ PipelineReturns

SpecMain == Init /\ [][NextMain]_vars

\* ------------------------------------------------------------------------
\* save_analysis_report called directly, with either value of each parameter,
\* on every report history; a caller may call it again.

\* the working directory of the process
WORKING_DIR == "."

\* legacy mode, line 221: report_filename = f"analysis_report_{timestamp}.txt"
LegacyPath(stamp) == Join(WORKING_DIR, ArchivedFilename(REPORT, stamp))

\* What one call does: fs and ds afterwards, the value returned ("None" or the
\* report_filename), whether the call raised, and the moves made
SaveOutcome(fs, ds, ret_value, raised, log) ==
    [fs |-> fs, ds |-> ds, ret |-> ret_value, raised |-> raised, log |-> log]

\* mutant of save_analysis_report: archive_existing_analysis() called before the
\* test of save_to_analysis_folder
save_analysis_report_rotating_first(fs, ds, result, to_folder, t, how, n) ==
    LET report == ReportLines(result, Timestamp(t))
        failed == n < Len(report)
        rotated == AfterMakedirs(ds, ANALYSIS_DIR, fs,
                      AfterMakedirs(Makedirs(ds, ANALYSIS_DIR), ANALYSIS_ARCHIVE, fs,
                                    archive_existing_analysis(fs, t, how)))
        made == Makedirs(Makedirs(ds, ANALYSIS_DIR), ANALYSIS_ARCHIVE)
    IN  IF result = NONE THEN SaveOutcome(fs, ds, "None", FALSE, <<>>)
        ELSE IF rotated.raised
        THEN SaveOutcome(rotated.fs, made, "None", TRUE, rotated.log)
        ELSE IF to_folder
        THEN SaveOutcome(Write(rotated.fs, ReportPath, report, n), made,
                         IF failed THEN "None" ELSE "analysis/analysis_report.txt",
                         FALSE, rotated.log)
        ELSE SaveOutcome(Write(rotated.fs, LegacyPath(Timestamp(t)), report, n), made,
                         IF failed THEN "None" ELSE "analysis_report_<timestamp>.txt",
                         FALSE, rotated.log)

\* pipeline.save_analysis_report(analysis_result, save_to_analysis_folder), lines
\* 201-240; `how` is how the rotation's move ends, n where the write stops
save_analysis_report(fs, ds, result, to_folder, t, how, n) ==
    LET report == ReportLines(result, Timestamp(t))
        failed == n < Len(report)
        rotated == AfterMakedirs(ds, ANALYSIS_DIR, fs,
                      AfterMakedirs(Makedirs(ds, ANALYSIS_DIR), ANALYSIS_ARCHIVE, fs,
                                    archive_existing_analysis(fs, t, how)))
        made == Makedirs(Makedirs(ds, ANALYSIS_DIR), ANALYSIS_ARCHIVE)
    IN  IF result = NONE THEN SaveOutcome(fs, ds, "None", FALSE, <<>>)
        ELSE IF to_folder
        THEN IF rotated.raised
             THEN SaveOutcome(rotated.fs, made, "None", TRUE, rotated.log)
             ELSE SaveOutcome(Write(rotated.fs, ReportPath, report, n), made,
                              IF failed THEN "None" ELSE "analysis/analysis_report.txt",
                              FALSE, rotated.log)
        ELSE SaveOutcome(Write(fs, LegacyPath(Timestamp(t)), report, n), ds,
                         IF failed THEN "None" ELSE "analysis_report_<timestamp>.txt",
                         FALSE, <<>>)

InitSave ==
    /\ now \in 0 .. MaxTime
    /\ files \in Histories(now)
    /\ dirs = IF DOMAIN files = {} THEN {} ELSE {ANALYSIS_DIR, ANALYSIS_ARCHIVE}
    /\ analysis_result \in {NONE, ModelOutput(1)}
    /\ save_to_analysis_folder \in BOOLEAN
    /\ status_messages = <<>>
    /\ caller = "direct"
    /\ interval_seconds = 0
    /\ pc = "call"
    /\ cycle_count = 1
    /\ ret = "none"
    /\ faults = 0
    /\ last = Step("init", "ok")
    /\ pre = files
    /\ slept = FALSE
    /\ moves = [f \in {EVENTS, SENSORS, PLOT, REPORT} |-> <<>>]
    /\ WritersAtRest
    /\ monitoring = FALSE
    /\ cycle_in_progress = FALSE
    /\ next_cycle_time = NoTime
    /\ last_cycle_time = NoTime
    /\ clock = 0
    /\ dpc = "top"
    /\ last_start = NoTime
    /\ since_start = FALSE
    /\ pressed_at = NoTime
    /\ last_analysis = <<>>
    /\ choice = "none"
    /\ said = FALSE

\* what a direct call leaves alone
outside_save == <<caller, interval_seconds, slept, writer_vars, session_vars,
                  last_analysis, choice, said, status_messages>>

\* one call of save_analysis_report(analysis_result, save_to_analysis_folder)
CallSaveAnalysisReport ==
    /\ pc = "call"
    /\ \E hows \in RotationFaults(files, <<ReportPath>>) :
          LET report == ReportLines(analysis_result, Timestamp(now))
          IN  \E n \in WriteCuts(report) \cup {Len(report)} :
                 LET r == save_analysis_report(files, dirs, analysis_result,
                                               save_to_analysis_folder, now, hows[1], n)
                     faulty == Raises(hows) \/ n < Len(report)
                 IN  /\ faulty => faults < MaxFaults
                     /\ faulty => (analysis_result # NONE)
                     /\ Raises(hows) => save_to_analysis_folder
                     /\ files' = r.fs
                     /\ dirs' = r.ds
                     /\ ret' = r.ret
                     /\ moves' = Logged(moves, r.log)
                     /\ faults' = faults + (IF faulty THEN 1 ELSE 0)
                     /\ pc' = IF r.raised THEN "raised" ELSE "called"
                     /\ last' = Step("save_analysis_report",
                                     IF r.raised THEN "raised"
                                     ELSE IF r.ret = "None" THEN "None" ELSE "saved")
    /\ pre' = files
    /\ UNCHANGED <<now, cycle_count, analysis_result, save_to_analysis_folder>>
    /\ UNCHANGED outside_save

\* the caller goes on to another call, with its own arguments
CallAgain ==
    /\ pc = "called"
    /\ cycle_count < MaxCycles
    /\ cycle_count' = cycle_count + 1
    /\ analysis_result' \in {NONE, ModelOutput(cycle_count + 1)}
    /\ save_to_analysis_folder' \in BOOLEAN
    /\ pc' = "call"
    /\ UNCHANGED <<files, dirs, now, ret, faults, last, pre, moves>>
    /\ UNCHANGED outside_save

\* time passes between two calls
CallerWaits ==
    /\ pc = "call"
    /\ cycle_count > 1
    /\ now < MaxTime
    /\ now' = now + 1
    /\ UNCHANGED <<files, dirs, pc, cycle_count, analysis_result, ret, faults, last, pre,
                   moves, save_to_analysis_folder>>
    /\ UNCHANGED outside_save

NextSave ==
    \/ CallSaveAnalysisReport
    \/ CallAgain
    \/ CallerWaits

SpecSave == InitSave /\ [][NextSave]_vars

\* ------------------------------------------------------------------------
\* The status list of the dashboard session: Start and Stop presses and the
\* add_status_message calls of run_single_cycle.  Nothing but the page reads the
\* list, so it is followed apart from the timings.  An entry is its message and
\* type; its "time" string (line 237) is left out.

MaxShownCycles == 3

\* line 243: if len(st.session_state.status_messages) > 10
MaxMessages == 10

\* One entry of the list; n is the cycle number in the message, 0 without one
Entry(message, n, msg_type) == [message |-> <<message, n>>, type |-> msg_type]

\* mutant of add_status_message: pop() instead of pop(0)
add_status_message_pop_last(messages, entry) ==
    LET appended == Append(messages, entry)
    IN  IF Len(appended) > MaxMessages
        THEN SubSeq(appended, 1, Len(appended) - 1)
        ELSE appended

\* streamlit_app.add_status_message, lines 235-244: append, then pop(0) when the
\* list has more than 10 entries
add_status_message(messages, entry) ==
    LET appended == Append(messages, entry)
    IN  IF Len(appended) > MaxMessages THEN Tail(appended) ELSE appended

InitStatus == InitDash

\* what the status list's handlers leave alone, the timings among it
outside_status == <<files, dirs, now, caller, interval_seconds, pc, analysis_result,
                    ret, faults, last, pre, slept, moves, writer_vars, choice, said,
                    next_cycle_time, last_cycle_time, clock, last_start, since_start,
                    pressed_at, last_analysis, save_to_analysis_folder>>

\* lines 502-506: monitoring on, the list emptied, "Monitoring started" added
StartPressed ==
    /\ dpc = "top"
    /\ ~monitoring
    /\ monitoring' = TRUE
    /\ status_messages' = add_status_message(<<>>, Entry("Monitoring started", 0, "success"))
    /\ UNCHANGED <<cycle_in_progress, dpc, cycle_count, outside_status>>

\* lines 509-513: monitoring off, "Monitoring stopped" added
StopPressed ==
    /\ dpc = "top"
    /\ monitoring
    /\ monitoring' = FALSE
    /\ status_messages' =
          add_status_message(status_messages, Entry("Monitoring stopped", 0, "info"))
    /\ UNCHANGED <<cycle_in_progress, dpc, cycle_count, outside_status>>

\* lines 435-445: run_single_cycle begins and reports its first step
CycleGenerates ==
    /\ dpc = "top"
    /\ monitoring
    /\ cycle_count < MaxShownCycles
    /\ cycle_in_progress' = TRUE
    /\ cycle_count' = cycle_count + 1
    /\ dpc' = "generating"
    /\ status_messages' =
          add_status_message(status_messages, Entry("Generating data", cycle_count', "info"))
    /\ UNCHANGED <<monitoring, outside_status>>

\* lines 446-450: the data are generated, the second step is reported
CycleVisualizes ==
    /\ dpc = "generating"
    /\ dpc' = "visualizing"
    /\ status_messages' =
          add_status_message(status_messages,
                             Entry("Creating visualization", cycle_count, "info"))
    /\ UNCHANGED <<monitoring, cycle_in_progress, cycle_count, outside_status>>

\* lines 451-455: the plot is made, the third step is reported
CycleAnalyses ==
    /\ dpc = "visualizing"
    /\ dpc' = "analysing"
    /\ status_messages' =
          add_status_message(status_messages, Entry("Running AI analysis", cycle_count, "info"))
    /\ UNCHANGED <<monitoring, cycle_in_progress, cycle_count, outside_status>>

\* lines 456-464 and 480-481: the analysis returned, with a result or without
CycleReportsEnd ==
    /\ dpc = "analysing"
    /\ \E entry \in {Entry("completed!", cycle_count, "success"),
                     Entry("completed (no analysis)", cycle_count, "warning")} :
          status_messages' = add_status_message(status_messages, entry)
    /\ cycle_in_progress' = ResetInFinally(cycle_in_progress)
    /\ dpc' = "top"
    /\ UNCHANGED <<monitoring, cycle_count, outside_status>>

\* lines 477-481: a step raised, the error is reported
CycleReportsError ==
    /\ dpc \in {"generating", "visualizing", "analysing"}
    /\ status_messages' =
          add_status_message(status_messages, Entry("Error", cycle_count, "error"))
    /\ cycle_in_progress' = ResetInFinally(cycle_in_progress)
    /\ dpc' = "top"
    /\ UNCHANGED <<monitoring, cycle_count, outside_status>>

NextStatus ==
    \/ StartPressed
    \/ StopPressed
    \/ CycleGenerates
    \/ CycleVisualizes
    \/ CycleAnalyses
    \/ CycleReportsEnd
    \/ CycleReportsError

SpecStatus == InitStatus /\ [][NextStatus]_vars

\* ------------------------------------------------- vocabulary of the claims
ArchiveDirs == {DATA_ARCHIVE, IMAGES_ARCHIVE, ANALYSIS_ARCHIVE}

IsArchived(path) == path[1] \in ArchiveDirs

\* The archive entries of the logical name at `path`: <archive>/<base>_*<ext>
Entries(fs, path) ==
    {q \in DOMAIN fs : /\ q[1] = ArchiveDirOf(path)
                       /\ q[2][1] = path[2][1]
                       /\ q[2][3] = path[2][2]}

RotationSteps ==
    {"archive_existing_files", "archive_existing_plot", "archive_existing_analysis"}

\* The current paths a rotation step looks at
RotatedBy(op) ==
    CASE op = "archive_existing_files" -> {EventsPath, SensorsPath}
      [] op = "archive_existing_plot" -> {PlotPath}
      [] op = "archive_existing_analysis" -> {ReportPath}
      [] OTHER -> {}

\* The current paths an archive-then-write operation has just finished writing
WrittenBy(step) ==
    CASE step = Step("generate_and_save_data", "ok") -> {EventsPath, SensorsPath}
      [] step = Step("create_dashboard", "ok") -> {PlotPath}
      [] step = Step("save_analysis_report", "saved") -> {ReportPath}
      [] OTHER -> {}

\* What cycle k writes at `path` (the report as written at the clock reading t)
Produced(path, k, t) ==
    CASE path = EventsPath -> CsvOf(EVENTS, k)
      [] path = SensorsPath -> CsvOf(SENSORS, k)
      [] path = PlotPath -> Render(CsvOf(EVENTS, k), CsvOf(SENSORS, k))
      [] OTHER -> ReportLines(ModelOutput(k), Timestamp(t))

IsProducedBy(fs, path, k) ==
    /\ Exists(fs, path)
    /\ \E t \in 0 .. MaxTime : fs[path] = Produced(path, k, t)

LastMove(filename) == moves[filename][Len(moves[filename])]

SameSecond(t1, t2) == t1 \div TicksPerSecond = t2 \div TicksPerSecond

\* ===================================================================== C1
\* C1 as stated: whenever an archive-then-write operation has finished writing a
\* current path that held content C when the operation began, the path holds the
\* new content, the archive holds exactly one entry of that logical name more
\* than before, and that new entry holds C.
C1_OneNewEntryAlways ==
    \A p \in WrittenBy(last) :
        p \in DOMAIN pre =>
            /\ IsProducedBy(files, p, cycle_count)
            /\ \E q \in Entries(files, p) \ Entries(pre, p) :
                  /\ Entries(files, p) = Entries(pre, p) \cup {q}
                  /\ files[q] = pre[p]

\* C1 as amended: the same, provided no archive entry with the derived name
\* <base>_<timestamp><ext> existed when the operation began; when one did (an
\* earlier rotation of that name read the clock in the same second), the move
\* replaced it: the entry holds C and the number of entries is unchanged.
C1_OneNewEntryUnlessNameTaken ==
    \A p \in WrittenBy(last) :
        p \in DOMAIN pre =>
            LET q == LastMove(p[2]).dst
            IN  /\ IsProducedBy(files, p, cycle_count)
                /\ q \in Entries(files, p)
                /\ files[q] = pre[p]
                /\ Entries(files, p) = Entries(pre, p) \cup {q}
                /\ q \notin DOMAIN pre =>
                      Cardinality(Entries(files, p)) = Cardinality(Entries(pre, p)) + 1
                /\ q \in DOMAIN pre =>
                      Cardinality(Entries(files, p)) = Cardinality(Entries(pre, p))

\* a second-cycle report write that archived the first cycle's report under a new name
C1_Witness ==
    /\ last = Step("save_analysis_report", "saved")
    /\ IsProducedBy(pre, ReportPath, 1)
    /\ cycle_count = 2
    /\ LastMove(REPORT).dst \notin DOMAIN pre
    /\ Cardinality(Entries(files, ReportPath)) = 2

\* ===================================================================== C2
\* C2 as stated: once an archive entry exists, no step of the program deletes it
\* or changes its content.
C2_EntriesNeverChange ==
    [][\A q \in DOMAIN files :
          IsArchived(q) => (q \in DOMAIN files' /\ files'[q] = files[q])]_vars

\* C2 as amended: no step deletes an archive entry, and a step changes the
\* content of an entry only if it is the rotation of the entry's own logical name
\* reading the clock within the second of the entry's timestamp (the move then
\* lands on the entry's name).
C2_EntriesKeptOutsideCollision ==
    [][\A q \in DOMAIN files :
          IsArchived(q) =>
              /\ q \in DOMAIN files'
              /\ files'[q] # files[q] =>
                    /\ last'.op \in RotationSteps
                    /\ \E p \in RotatedBy(last'.op) :
                          /\ p \in DOMAIN files
                          /\ q \in Entries(files, p)
                          /\ q[2][2] = Timestamp(now)]_vars

\* an entry made in an earlier second has survived a later rotation of its name
C2_Witness ==
    /\ last = Step("archive_existing_analysis", "ok")
    /\ Cardinality(Entries(files, ReportPath)) = 2
    /\ \E q \in Entries(files, ReportPath) :
          /\ q[2][2] < Timestamp(now)
          /\ q \in DOMAIN pre
          /\ files[q] = OldContent(ReportPath)

\* ===================================================================== C3
CycleCompleted ==
    \/ caller = "complete" /\ pc = "returned" /\ ret = "True"
    \/ caller = "continuous" /\ pc = "sleep"
    \/ caller = "dashboard" /\ pc = "cycle_end"

\* C3 as stated: after every cycle that completes, each of the four current
\* artifacts is the one produced by that cycle.
C3_AllCurrentAreLatest ==
    CycleCompleted => \A p \in CurrentPaths : IsProducedBy(files, p, cycle_count)

ReportWritten == last = Step("save_analysis_report", "saved")

\* C3 as amended: after every cycle that completes, events.csv, sensors.csv and
\* the chart are the ones produced by that cycle; the report is the one produced
\* by that cycle exactly when the analysis returned a result and the report was
\* written without error.
C3_DataAndPlotLatestReportIfSaved ==
    CycleCompleted =>
        /\ \A p \in {EventsPath, SensorsPath, PlotPath} :
              IsProducedBy(files, p, cycle_count)
        /\ IsProducedBy(files, ReportPath, cycle_count)
              <=> (analysis_result # NONE /\ ReportWritten)

\* a completed second cycle whose analysis failed: the report is still cycle 1's
C3_Witness ==
    /\ CycleCompleted
    /\ cycle_count = 2
    /\ analysis_result = NONE
    /\ IsProducedBy(files, ReportPath, 1)
    /\ IsProducedBy(files, PlotPath, 2)

\* ===================================================================== C4
RotationRaised == last.op \in RotationSteps /\ last.outcome = "raised"

\* C4: when the move inside a rotation raised, control does not reach the write
\* of that operation, no current path holds content it did not hold when the
\* operation began, and the file whose move failed is still in place unchanged.
C4_NoWriteAfterFailedMove ==
    RotationRaised =>
        /\ pc \notin {"write_data", "save_plot", "write_report"}
        /\ \A p \in CurrentPaths :
              p \in DOMAIN files => (p \in DOMAIN pre /\ files[p] = pre[p])
        /\ \E p \in RotatedBy(last.op) :
              /\ LastMove(p[2]).how = "fail"
              /\ LastMove(p[2]).tick = now
              /\ p \in DOMAIN files
              /\ files[p] = pre[p]

\* the move of sensors.csv failed after events.csv had been archived
C4_Witness ==
    /\ last = Step("archive_existing_files", "raised")
    /\ EventsPath \in DOMAIN pre
    /\ EventsPath \notin DOMAIN files
    /\ SensorsPath \in DOMAIN files
    /\ cycle_count = 2

\* ===================================================================== C5
\* C5: a rotation step that found no file at a current path created and changed
\* no archive entry of that logical name; when it found none of its files, it
\* raised nothing and left every file as it was.
C5_AbsentSourceIsNoOp ==
    last.op \in RotationSteps =>
        /\ \A p \in RotatedBy(last.op) :
              p \notin DOMAIN pre =>
                  /\ Entries(files, p) = Entries(pre, p)
                  /\ \A q \in Entries(pre, p) : files[q] = pre[q]
        /\ (\A p \in RotatedBy(last.op) : p \notin DOMAIN pre) =>
              /\ last.outcome = "ok"
              /\ files = pre

\* the report was absent although the archive already held an entry of it
C5_Witness ==
    /\ last = Step("archive_existing_analysis", "ok")
    /\ ReportPath \notin DOMAIN pre
    /\ Entries(pre, ReportPath) # {}
    /\ files = pre

\* ===================================================================== C6
\* C6: two consecutive moves of the same filename whose rotations read the clock
\* within the same second have the same destination, and the destination the
\* first one created is there when the second one runs.
C6_SameSecondSameName ==
    \A f \in DOMAIN moves :
        (Len(moves[f]) = 2 /\ SameSecond(moves[f][1].tick, moves[f][2].tick)) =>
            /\ moves[f][2].dst = moves[f][1].dst
            /\ moves[f][1].how = "ok" => moves[f][2].existed

\* two rotations of events.csv at different instants of one second, both moved
C6_Witness ==
    /\ Len(moves[EVENTS]) = 2
    /\ moves[EVENTS][1].tick # moves[EVENTS][2].tick
    /\ SameSecond(moves[EVENTS][1].tick, moves[EVENTS][2].tick)
    /\ moves[EVENTS][1].how = "ok"
    /\ moves[EVENTS][2].how = "ok"
    /\ moves[EVENTS][2].existed

\* ===================================================================== C7
\* C7: after a rotation step that returned normally, none of its current paths
\* holds a file, and for each file that was there the archive entry the step
\* created holds the content the file had.
C7_RotationFreesSlot ==
    (last.op \in RotationSteps /\ last.outcome = "ok") =>
        \A p \in RotatedBy(last.op) :
            /\ p \notin DOMAIN files
            /\ p \in DOMAIN pre =>
                  /\ LastMove(p[2]).dst \in Entries(files, p)
                  /\ LastMove(p[2]).dst[2][2] = Timestamp(LastMove(p[2]).tick)
                  /\ files[LastMove(p[2]).dst] = pre[p]

\* the chart of the first cycle has just been rotated in the second
C7_Witness ==
    /\ last = Step("archive_existing_plot", "ok")
    /\ IsProducedBy(pre, PlotPath, 1)
    /\ PlotPath \notin DOMAIN files

\* ===================================================================== C8
\* C8: in run_continuous_pipeline no outcome of a cycle ends the loop; only a
\* KeyboardInterrupt does.
C8_LoopOutlivesEveryCycle ==
    caller = "continuous" => pc # "crashed"

\* ===================================================================== C9
\* C9: in run_continuous_pipeline a cycle after the first starts only after
\* time.sleep(interval_seconds) has run since the previous cycle started.
C9_SleepBetweenCycles ==
    [][(caller = "continuous" /\ pc = "loop" /\ pc' = "archive_files"
            /\ last.op # "main") => slept]_vars

\* ==================================================================== C10
AnalysisFailed ==
    last.op = "run_plot_analysis" /\ last.outcome \in {"ImportError", "Exception"}

\* C10: when the import or the inference fails, run_plot_analysis returns None
\* and raises nothing; the cycle is then complete (run_complete_pipeline has
\* returned True, the loop is at its sleep), without save_analysis_report having
\* run and with every file, the report and its archive included, as it was.
C10_AnalysisFailureCompletesCycle ==
    AnalysisFailed =>
        /\ analysis_result = NONE
        /\ CycleCompleted
        /\ caller = "complete" => ret = "True"
        /\ pc \notin {"archive_analysis", "write_report", "crashed"}
        /\ files = pre
        /\ Exists(pre, ReportPath) => files[ReportPath] = pre[ReportPath]
        /\ Entries(files, ReportPath) = Entries(pre, ReportPath)

\* the loop at its sleep after a failed inference, the old report still current
C10_Witness ==
    /\ last = Step("run_plot_analysis", "Exception")
    /\ caller = "continuous"
    /\ pc = "sleep"
    /\ Exists(files, ReportPath)

\* ==================================================================== C12
RotationPcs == {"archive_files", "archive_plot", "archive_analysis"}

C13_ArchiveHoldsOnlyStampedRotations ==
    [][\A q \in DOMAIN files' :
          (/\ IsArchived(q)
           /\ (q \notin DOMAIN files \/ files'[q] # files[q])) =>
              /\ last'.op \in RotationSteps
              /\ \E p \in RotatedBy(last'.op) :
                    /\ p \in DOMAIN files
                    /\ q = <<ArchiveDirOf(p), <<p[2][1], now \div TicksPerSecond, p[2][2]>> >>
                    /\ files'[q] = files[p]]_vars

\* the report of an earlier run archived in the second second of the clock
C13_Witness ==
    /\ last = Step("archive_existing_analysis", "ok")
    /\ <<ANALYSIS_ARCHIVE, <<"analysis_report", 1, ".txt">> >> \in DOMAIN files
    /\ <<ANALYSIS_ARCHIVE, <<"analysis_report", 1, ".txt">> >> \notin DOMAIN pre
    /\ files[<<ANALYSIS_ARCHIVE, <<"analysis_report", 1, ".txt">> >>] = OldContent(ReportPath)

\* ==================================================================== C14
\* C14 as stated: the report just written consists of a rule, the title line, the
\* generation-timestamp line, the source-plot line and a rule, then the model
\* output, then a closing rule, and of nothing else.
C14_ReportIsBannerOutputRule ==
    ReportWritten =>
        files[ReportPath] = << <<"rule">>,
                               <<"INDUSTRIAL PROCESS MONITORING - ANOMALY ANALYSIS REPORT">>,
                               <<"Generated at", Timestamp(now)>>,
                               <<"Source plot", PLOT>>,
                               <<"rule">>,
                               analysis_result,
                               <<"rule">> >>

\* C14 as amended: the report just written consists of nine parts in this order:
\* a rule, the title line, a second rule, the generation-timestamp line, the
\* source-plot line, a third rule, the model output as run_plot_analysis returned
\* it, a closing rule, and the line "End of Report".
C14_ReportIsNineParts ==
    ReportWritten =>
        LET report == files[ReportPath]
        IN  /\ Len(report) = 9
            /\ report[1] = <<"rule">>
            /\ report[2] = <<"INDUSTRIAL PROCESS MONITORING - ANOMALY ANALYSIS REPORT">>
            /\ report[3] = <<"rule">>
            /\ report[4] = <<"Generated at", Timestamp(now)>>
            /\ report[5] = <<"Source plot", PLOT>>
            /\ report[6] = <<"rule">>
            /\ report[7] = analysis_result
            /\ report[7] = ModelOutput(cycle_count)
            /\ report[8] = <<"rule">>
            /\ report[9] = <<"End of Report">>

\* the report of the second cycle, written in the second second of the clock
C14_Witness ==
    /\ ReportWritten
    /\ cycle_count = 2
    /\ Timestamp(now) = 1
    /\ files[ReportPath][7] = ModelOutput(2)
    /\ files[ReportPath][4] = <<"Generated at", 1>>

\* ==================================================================== C15
\* the step just taken is generation or rendering raising
StageRaised(step) ==
    /\ step.op \in {"archive_existing_files", "generate_and_save_data", "load_data",
                     "archive_existing_plot", "create_dashboard"}
    /\ step.outcome = "raised"

\* C15: in run_complete_pipeline and in each iteration of the loop, rendering
\* begins only when generation has just finished without raising, the analysis
\* only when rendering has just finished without raising, and the report is saved
\* only when the analysis has just returned a result; and a run of
\* run_complete_pipeline ends with False returned when generation or rendering
\* raised and with True returned in every other case.
C15_StepOrderAndReturnValue ==
    [][(caller \in {"complete", "continuous"}) =>
          /\ (pc' = "archive_plot" /\ pc # pc') =>
                (pc = "write_data" /\ last' = Step("generate_and_save_data", "ok"))
          /\ (pc' = "analysis" /\ pc # pc') =>
                (pc \in {"archive_plot", "save_plot"} /\ ~StageRaised(last'))
          /\ (pc' = "archive_analysis" /\ pc # pc') =>
                (pc = "analysis" /\ analysis_result' # NONE)
          /\ (caller = "complete" /\ pc' \in {"returned", "crashed"} /\ pc # pc') =>
                ret' = (IF StageRaised(last') THEN "False" ELSE "True")]_vars

\* ==================================================================== C16
\* C16: while monitoring stays on, a start of run_single_cycle comes at least 30
\* seconds after the previous start, whatever the outcome of the previous cycle.
C16_StartsThirtySecondsApart ==
    [][(dpc = "top" /\ dpc' = "cycle" /\ since_start) =>
          clock - last_start >= CycleInterval]_vars

\* ==================================================================== C17
\* C17: the script starts a cycle only with monitoring on, no cycle in progress
\* and next_cycle_time None or reached; Stop Monitoring turns monitoring off and
\* sets next_cycle_time to None; monitoring comes on only by Start Monitoring; and
\* after Start Monitoring the script starts a cycle before the clock has moved,
\* never waiting for an interval first.
C17_GateAndButtons ==
    [][/\ (dpc = "top" /\ dpc' = "cycle") =>
              /\ monitoring
              /\ ~cycle_in_progress
              /\ (next_cycle_time = NoTime \/ next_cycle_time <= clock)
       /\ (monitoring /\ ~monitoring') => next_cycle_time' = NoTime
       /\ (~monitoring /\ monitoring') => pressed_at' = clock
       /\ (pressed_at # NoTime /\ dpc = "top" /\ dpc' # "top") =>
              (dpc' = "cycle" /\ clock = pressed_at)]_vars

\* the first cycle completed, Stop and then Start were pressed before its
\* interval had passed, and the second cycle has started at once
C17_Witness ==
    /\ dpc = "cycle"
    /\ cycle_count = 2
    /\ last_cycle_time # NoTime
    /\ next_cycle_time = NoTime
    /\ last_start = clock
    /\ clock < last_cycle_time + CycleInterval

\* ==================================================================== C11
\* a content that was at the current path and is now neither there nor in any
\* archive entry of that logical name
Lost(content) ==
    /\ content \in written
    /\ ~(Exists(files, target) /\ files[target] = content)
    /\ \A q \in Entries(files, target) : files[q] # content

\* C11: with two writers on one logical name there are interleavings in which a
\* writer's move raises because the file is gone, and in which a content is left
\* neither at the current path nor in the archive; a move fails that way only
\* when the operations of the two writers overlapped, and a content is lost only
\* then or when a move landed on an existing entry (the same-second collision).
C11_RotationUnsafeOnlyUnderOverlap ==
    /\ move_failed # {} => overlapped
    /\ (\E content \in written : Lost(content)) => (overlapped \/ collided)

\* a writer's move has raised, a content has been lost, and no move ever landed
\* on an existing archive entry
C11_Witness ==
    /\ move_failed # {}
    /\ \E content \in written : Lost(content)
    /\ ~collided

\* ---------------------------------------------------------------- C18
\* The current report as force_load_analysis reads it: its text, or no text when
\* the file is absent
MainText(fs) == IF Exists(fs, ReportPath) THEN fs[ReportPath] ELSE <<>>

\* The text of the most recently created archive entry, or no text without one
LatestArchived(fs) ==
    IF Glob(fs) = {} THEN <<>>
    ELSE fs[CHOOSE q \in Glob(fs) : \A r \in Glob(fs) : Getctime(r) <= Getctime(q)]

\* the cycle's force_load_analysis has just run
Loads == pc = "loading" /\ pc' = "top"

\* the save before it rotated a previous report that had text, and its write failed
WriteFailedAfterRotation ==
    /\ last = Step("save_analysis_report", "None")
    /\ Exists(pre, ReportPath)
    /\ pre[ReportPath] # <<>>

\* What force_load_analysis returns, from the files alone
C18_LoadedFromFiles ==
    /\ MainText(files) # <<>> => last_analysis' = MainText(files)
    /\ MainText(files) = <<>> /\ LatestArchived(files) # <<>> =>
          last_analysis' = LatestArchived(files)
    /\ last_analysis' = NoAnalysis <=>
          (MainText(files) = <<>> /\ LatestArchived(files) = <<>>)
    /\ files' = files
    /\ dirs' = dirs

\* C18 as stated: force_load_analysis returns the current report when it exists
\* with text, else the most recently created archive entry, None exactly when
\* neither has text, and changes no file; hence after a save whose write failed
\* after a successful rotation the dashboard shows the previous report.
C18_FailedWriteShowsPreviousReport ==
    [][Loads =>
          /\ C18_LoadedFromFiles
          /\ WriteFailedAfterRotation => last_analysis' = pre[ReportPath]]_vars

\* C18: force_load_analysis returns the current report when it exists with text,
\* else the most recently created archive entry, None exactly when neither has
\* text, and changes no file. After a save whose write failed after a successful
\* rotation the dashboard shows the previous report when the failed write left
\* no report file or an empty one, and the text the failed write left otherwise.
C18_FailedWriteShowsWhatIsLeft ==
    [][Loads =>
          /\ C18_LoadedFromFiles
          /\ WriteFailedAfterRotation =>
                last_analysis' = IF MainText(files) = <<>> THEN pre[ReportPath]
                                 ELSE MainText(files)]_vars

\* The previous report was rotated into an archive that held an older entry, the
\* write failed at the open, and the dashboard shows the previous report
C18_Witness ==
    /\ pc = "top"
    /\ last = Step("save_analysis_report", "None")
    /\ Exists(pre, ReportPath)
    /\ pre[ReportPath] # <<>>
    /\ ~Exists(files, ReportPath)
    /\ Cardinality(Glob(files)) >= 2
    /\ last_analysis = pre[ReportPath]
    /\ last_analysis # NoAnalysis

\* The failed write left all but the last line of the new report, and that is
\* what the dashboard shows
C18_PartialShown ==
    /\ pc = "top"
    /\ last = Step("save_analysis_report", "None")
    /\ Exists(pre, ReportPath)
    /\ pre[ReportPath] # <<>>
    /\ last_analysis = Prefix(ReportLines(analysis_result, Timestamp(now - TicksPerSecond)), 8)

\* ---------------------------------------------------------------- C19
\* archive_existing_files has just run
RotatesTabularPair == pc = "archive_files" /\ pc' # pc

\* The archive entries of `filename` in fs
ArchivedAs(fs, filename) ==
    {q \in DOMAIN fs : q[1] = DATA_ARCHIVE /\ q[2][1] = filename[1]}

\* C19: one rotation of the tabular pair reads the clock once, so the events.csv
\* and sensors.csv it archives carry the same timestamp in their archive names;
\* each file is rotated on its own, so a file that does not exist is not moved
\* and no archive name is created for it, while the other one is moved.
C19_OneStampForThePair ==
    [][RotatesTabularPair =>
          \A f \in {EVENTS, SENSORS} :
             LET src == Join(DATA_DIR, f)
                 dst == Join(DATA_ARCHIVE, ArchivedFilename(f, Timestamp(now)))
             IN  /\ ~Exists(files, src) =>
                       /\ moves'[f] = moves[f]
                       /\ ArchivedAs(files', f) = ArchivedAs(files, f)
                       /\ \A q \in ArchivedAs(files, f) : files'[q] = files[q]
                 /\ Exists(files, src) /\ last'.outcome = "ok" =>
                       /\ ~Exists(files', src)
                       /\ Exists(files', dst)
                       /\ files'[dst] = files[src]
                       /\ ArchivedAs(files', f) = ArchivedAs(files, f) \cup {dst}]_vars

\* A rotation has archived events.csv alone, sensors.csv being absent, after an
\* earlier rotation archived the two under one timestamp
C19_Witness ==
    /\ last = Step("archive_existing_files", "ok")
    /\ Exists(pre, EventsPath)
    /\ ~Exists(pre, SensorsPath)
    /\ LastMove(EVENTS).tick = now
    /\ Len(moves[EVENTS]) = 2
    /\ moves[SENSORS] # <<>>
    /\ moves[EVENTS][1].tick = LastMove(SENSORS).tick
    /\ moves[EVENTS][1].dst[2][2] = LastMove(SENSORS).dst[2][2]
    /\ LastMove(SENSORS).how = "ok"
    /\ Exists(files, LastMove(SENSORS).dst)

\* ---------------------------------------------------------------- C20
\* save_analysis_report wrote analysis/analysis_report.txt in the run that has
\* just returned
ReportWrittenThisRun ==
    /\ last = Step("save_analysis_report", "saved")
    /\ Exists(files, ReportPath)
    /\ files[ReportPath] = ReportLines(ModelOutput(cycle_count), Timestamp(now))

\* C20: in mode 2 of main, 'Analysis report already saved to analysis folder
\* during pipeline execution' is printed only if save_analysis_report wrote
\* analysis/analysis_report.txt during that run of run_complete_pipeline.
C20_SaidOnlyIfSaved == said => ReportWrittenThisRun

\* What holds instead: the message follows the return value alone
C20_SaidIffReturnedTrue ==
    pc = "exited" => (said <=> (choice = "2" /\ ret = "True"))

\* ---------------------------------------------------------------- C21
\* C21: cycle_in_progress is True only while run_single_cycle is executing; both
\* its normal return and its exception path reset it, so wherever main reads it
\* (status indicator, countdown, cycle gate) it is False, the indicator never
\* shows RUNNING, and the countdown and the gate do not depend on it.
C21_InProgressOnlyInsideCycle ==
    /\ cycle_in_progress <=> dpc = "cycle"
    /\ dpc # "cycle" =>
          /\ StatusIndicator(monitoring, cycle_in_progress) # "RUNNING"
          /\ CountdownShown(monitoring, cycle_in_progress, next_cycle_time)
                 <=> (monitoring /\ next_cycle_time # NoTime)
          /\ CycleDue(monitoring, cycle_in_progress, next_cycle_time, clock)
                 <=> (monitoring /\ (next_cycle_time = NoTime \/ clock >= next_cycle_time))

\* Back in main after a cycle that completed and a later one that raised, with
\* monitoring still on: the indicator shows MONITORING ACTIVE
C21_Witness ==
    /\ dpc = "top"
    /\ monitoring
    /\ cycle_count = 2
    /\ last_cycle_time # NoTime
    /\ last_start >= last_cycle_time
    /\ ~cycle_in_progress
    /\ StatusIndicator(monitoring, cycle_in_progress) = "MONITORING ACTIVE"

\* ---------------------------------------------------------------- C22
\* save_analysis_report has just been called and has returned
Saves == pc = "call" /\ pc' = "called"

\* The paths whose presence or content the step changes
Touched == {q \in DOMAIN files \cup DOMAIN files' :
               ~(Exists(files, q) /\ Exists(files', q) /\ files'[q] = files[q])}

\* C22: called with a falsy analysis_result, save_analysis_report returns None
\* and changes no file or directory; called with save_to_analysis_folder=False it
\* writes only analysis_report_<timestamp>.txt in the working directory, moves
\* nothing, and leaves analysis/analysis_report.txt and analysis/archive as they
\* were.
C22_NothingToRotateLeavesSlotAlone ==
    [][Saves =>
          /\ analysis_result = NONE =>
                /\ ret' = "None"
                /\ files' = files
                /\ dirs' = dirs
                /\ moves' = moves
          /\ (analysis_result # NONE /\ ~save_to_analysis_folder) =>
                /\ Touched \subseteq {LegacyPath(Timestamp(now))}
                /\ ret' # "None" =>
                      (/\ Exists(files', LegacyPath(Timestamp(now)))
                       /\ files'[LegacyPath(Timestamp(now))]
                             = ReportLines(analysis_result, Timestamp(now)))
                /\ dirs' = dirs
                /\ moves' = moves
                /\ Exists(files', ReportPath) <=> Exists(files, ReportPath)
                /\ Glob(files') = Glob(files)]_vars

\* A legacy-mode call has written its file beside a current report and an archive
\* entry, both as they were before the call
C22_Witness ==
    /\ pc = "called"
    /\ ~save_to_analysis_folder
    /\ analysis_result # NONE
    /\ ret = "analysis_report_<timestamp>.txt"
    /\ Exists(pre, ReportPath)
    /\ Glob(pre) # {}
    /\ ~Exists(pre, LegacyPath(Timestamp(now)))
    /\ Exists(files, LegacyPath(Timestamp(now)))
    /\ files[ReportPath] = pre[ReportPath]
    /\ \A q \in Glob(pre) : files[q] = pre[q]

\* ---------------------------------------------------------------- C23
\* Start Monitoring has just been pressed
Starts == ~monitoring /\ monitoring'

\* The entry a step has put at the end of the list
Newest == status_messages'[Len(status_messages')]

\* C23: the status list never holds more than 10 entries; an entry added to a
\* list of 10 drops the oldest and keeps the order of the rest (to a shorter list
\* it is appended); Start Monitoring leaves the list holding its own message
\* alone.
C23_StatusListKeepsLastTen ==
    [][/\ Len(status_messages) <= 10
       /\ Len(status_messages') <= 10
       /\ Len(status_messages') >= 1
       /\ Starts => status_messages' = <<Entry("Monitoring started", 0, "success")>>
       /\ ~Starts =>
             status_messages' =
                IF Len(status_messages) = 10
                THEN Append(Tail(status_messages), Newest)
                ELSE Append(status_messages, Newest)]_vars

\* The list is full and its oldest entries have been dropped: it no longer starts
\* with the message of the Start press
C23_Witness ==
    /\ Len(status_messages) = 10
    /\ status_messages[1] # Entry("Monitoring started", 0, "success")
    /\ monitoring

====
